---------------------------- MODULE Spec2Model ----------------------------
(***************************************************************************)
(* Model of sqs_utils.SqsUtils (src/sqs_utils/__init__.py): a stateless    *)
(* facade over an SQS client.  Every facade operation is one action; the   *)
(* state records the last invocation: its arguments, the calls it made to  *)
(* the client (with the service's answer to each) and how it ended.        *)
(*                                                                         *)
(* Python values are modelled as follows.                                  *)
(*   str            a sequence of code points (message bodies, receipts)   *)
(*                  or a sequence of one-character strings (queue names),  *)
(*                  TLA+ strings for ids and group ids, which are only     *)
(*                  compared                                               *)
(*   bytes          a sequence of integers 0..255                          *)
(*   dict           a function whose domain is the set of keys present     *)
(*   list           a sequence                                             *)
(*   (a, b)         a function on {0, 1}                                   *)
(*   a value returned to the caller carries its type: Bool, List, Str, None *)
(*   d.get(k)       a sequence of length 0 (None) or 1 (the value)         *)
(*   exception      a Fault record; NoFault when the call returned         *)
(***************************************************************************)
EXTENDS Integers, Sequences, FiniteSets, TLC

VARIABLES op, args, calls, outcome

vars == <<op, args, calls, outcome>>

---------------------------------------------------------------------------
(* Bounds of the model. *)

MaxBatch == 3       \* longest batch passed to send_batch
MaxReceipts == 2    \* longest receipt list passed to remove_batch
MaxMsgs == 2        \* largest max_batch_size passed to receive_many

(* Defaults of the keyword parameters. *)

DefaultHide == 3600   \* hide_for_seconds = 60 * 60
DefaultPoll == 20     \* poll_for_seconds = 20

---------------------------------------------------------------------------
(* Generic helpers. *)

RECURSIVE SeqsUpTo(_, _)
SeqsUpTo(S, n) ==
    IF n = 0 THEN {<<>>}
    ELSE LET shorter == SeqsUpTo(S, n - 1)
         IN shorter \cup {Append(s, x) : s \in {t \in shorter : Len(t) = n - 1}, x \in S}

RECURSIVE Flatten(_)
Flatten(ss) == IF ss = <<>> THEN <<>> ELSE Head(ss) \o Flatten(Tail(ss))

(* The elements of s at the indices in I, in the order of s. *)
RECURSIVE Pick(_, _, _)
Pick(s, I, i) ==
    IF i > Len(s) THEN <<>>
    ELSE (IF i \in I THEN <<s[i]>> ELSE <<>>) \o Pick(s, I, i + 1)

EmptyDict == <<>>

DictGet(d, k) == IF k \in DOMAIN d THEN <<d[k]>> ELSE <<>>

DictPop(d, k) == [x \in (DOMAIN d) \ {k} |-> d[x]]

DictLen(d) == Cardinality(DOMAIN d)

---------------------------------------------------------------------------
(* Strings, bytes and hashing. *)

(* str.lower() on the characters the queue names are drawn from *)
LowerChar(c) ==
    CASE c = "F" -> "f"
      [] c = "I" -> "i"
      [] c = "O" -> "o"
      [] c = "Q" -> "q"
      [] OTHER -> c

Lower(s) == [i \in 1..Len(s) |-> LowerChar(s[i])]

EndsWith(s, suffix) ==
    /\ Len(s) >= Len(suffix)
    /\ SubSeq(s, Len(s) - Len(suffix) + 1, Len(s)) = suffix

FifoSuffix == <<".", "f", "i", "f", "o">>

(* str.encode('utf-8') of one code point below U+0800 *)
EncodeChar(cp) ==
    IF cp < 128 THEN <<cp>>
    ELSE <<192 + (cp \div 64), 128 + (cp % 64)>>

Utf8Encode(s) == Flatten([i \in 1..Len(s) |-> EncodeChar(s[i])])

(* hashlib.sha1(b).hexdigest(), tabulated on the byte strings of the model *)
Sha1Hex(b) ==
    CASE b = <<97>>       -> "86f7e437faa5a7fce15d1ddcb9eaeaea377667b8"
      [] b = <<195, 169>> -> "bf15be717ac1b080b4f1c456692825891ff5073d"
      [] b = <<120>>      -> "11f6ad8ec52a2984abaafd7c3b516503785c2072"
      [] b = <<121>>      -> "95cb0bfd2977c761298d9624e4b4d4c72a39974a"
      [] b = <<>>         -> "da39a3ee5e6b4b0d3255bfef95601890afd80709"

(* The callables a caller passes as fun_identify / fun_deduplicate:       *)
(* "sha1" is the default lambda, "len" is an override, lambda s: str(len(s)) *)
IdFuns == {"sha1", "len"}

DecimalOf(n) == CASE n = 0 -> "0" [] n = 1 -> "1" [] n = 2 -> "2" [] OTHER -> "3"

ApplyFun(f, b) == IF f = "sha1" THEN Sha1Hex(b) ELSE DecimalOf(Len(b))

---------------------------------------------------------------------------
(* Inputs. *)

Bodies == {<<97>>, <<233>>}          \* "a", "é"
Receipts == {<<120>>, <<121>>}       \* "x", "y"
GroupIds == {"default", "g1"}
QueueNames ==
    { <<"q">>,
      <<"q", ".", "f", "i", "f", "o">>,
      <<"Q", ".", "F", "i", "F", "O">>,
      <<".", "f", "i", "f", "o", "q">> }

---------------------------------------------------------------------------
(* Faults and the outcome of an invocation. *)

NoFault == [cls |-> "", code |-> ""]

Faults ==
    { [cls |-> "ClientError", code |-> "ReceiptHandleIsInvalid"],
      [cls |-> "ClientError", code |-> "AWS.SimpleQueueService.NonExistentQueue"],
      [cls |-> "EndpointConnectionError", code |-> ""] }

NotInvoked == [kind |-> "none"]

(* The values an operation returns: bool, list, str, None *)
Bool(b) == [type |-> "bool", bool |-> b]
List(l) == [type |-> "list", items |-> l]
Str(s) == [type |-> "str", str |-> s]
None == [type |-> "NoneType"]

Return(v) == [kind |-> "return", value |-> v]
Raise(f) == [kind |-> "raise", fault |-> f]

Call(name, req, resp) == [name |-> name, req |-> req, resp |-> resp]

Answer(v) == [fault |-> NoFault, value |-> v]
Faulted(f) == [fault |-> f, value |-> EmptyDict]

---------------------------------------------------------------------------
(* The client.  svc is what the service will do during one invocation:     *)
(*   svc.resolve   the fault of the queue-name resolution, or NoFault      *)
(*   svc.fault     the fault of the send / receive / delete call           *)
(*   svc.ok        the indices of the entries the service processes        *)
(*   svc.keep      whether an empty result list is still put in the answer *)
(*   svc.meta      whether the answer carries ResponseMetadata             *)
(*   svc.visible   the messages the queue can deliver, oldest first        *)

QueueUrl(queue_name) == [url_of |-> queue_name]

(* boto_resource.get_queue_by_name(QueueName=...) *)
get_queue_by_name(svc, queue_name) ==
    IF svc.resolve # NoFault THEN Faulted(svc.resolve)
    ELSE Answer([QueueUrl |-> QueueUrl(queue_name)])

(* boto_client.get_queue_url(QueueName=...) *)
get_queue_url(svc, queue_name) ==
    IF svc.resolve # NoFault THEN Faulted(svc.resolve)
    ELSE Answer([QueueUrl |-> QueueUrl(queue_name)])

ResponseMetadata == [HTTPStatusCode |-> 200]

(* The answer to a batch request: the ids of the entries at svc.ok under   *)
(* 'Successful', the ids of the others under 'Failed'.                     *)
BatchResult(svc, entries) ==
    LET n    == Len(entries)
        ids  == [i \in 1..n |-> [Id |-> entries[i].Id]]
        succ == Pick(ids, svc.ok, 1)
        fail == Pick(ids, (1..n) \ svc.ok, 1)
        keys == (IF succ # <<>> \/ svc.keep THEN {"Successful"} ELSE {})
                   \cup (IF fail # <<>> \/ svc.keep THEN {"Failed"} ELSE {})
                   \cup (IF svc.meta THEN {"ResponseMetadata"} ELSE {})
    IN [k \in keys |->
           CASE k = "Successful" -> succ
             [] k = "Failed"     -> fail
             [] OTHER            -> ResponseMetadata]

(* queue.send_messages(Entries=...) *)
send_messages(svc, entries) ==
    IF svc.fault # NoFault THEN Faulted(svc.fault)
    ELSE Answer(BatchResult(svc, entries))

---------------------------------------------------------------------------
(* SqsUtils.send_batch *)

(* Variant: the suffix compared without lower() *)
IsFifo_CaseSensitive(queue_name) == EndsWith(queue_name, FifoSuffix)

IsFifo(queue_name) == EndsWith(Lower(queue_name), FifoSuffix)

BuildEntries(batch, group_id, fun_identify, fun_deduplicate) ==
    [i \in 1..Len(batch) |->
        [MessageBody            |-> batch[i],
         MessageGroupId         |-> group_id,
         Id                     |-> ApplyFun(fun_identify, Utf8Encode(batch[i])),
         MessageDeduplicationId |-> ApplyFun(fun_deduplicate, Utf8Encode(batch[i]))]]

StripFifoFields(entries) ==
    [i \in 1..Len(entries) |->
        DictPop(DictPop(entries[i], "MessageDeduplicationId"), "MessageGroupId")]

(* Variant: any successful entry counts as success *)
SendSuccessful_AnyWritten(response, batch) ==
    LET successful_writes == DictGet(response, "Successful")
    IN successful_writes # <<>> /\ Len(successful_writes[1]) > 0

SendSuccessful(response, batch) ==
    LET successful_writes == DictGet(response, "Successful")
    IN successful_writes # <<>> /\ Len(successful_writes[1]) = Len(batch)

(* Variant: the empty batch is sent too *)
HasMessages_Always(batch) == TRUE

(* if len(batch) > 0: *)
HasMessages(batch) == Len(batch) > 0

send_batch(batch, queue_name, group_id, fun_identify, fun_deduplicate, svc) ==
    IF HasMessages(batch)
    THEN LET fifo    == IsFifo(queue_name)
             queue   == get_queue_by_name(svc, queue_name)
             c1      == Call("get_queue_by_name", [QueueName |-> queue_name], queue)
             built   == BuildEntries(batch, group_id, fun_identify, fun_deduplicate)
             entries == IF ~fifo THEN StripFifoFields(built) ELSE built
             sent    == send_messages(svc, entries)
             c2      == Call("send_messages",
                             [Queue |-> queue.value, Entries |-> entries], sent)
         IN IF queue.fault # NoFault
            THEN [calls |-> <<c1>>, outcome |-> Raise(queue.fault)]
            ELSE IF sent.fault # NoFault
            THEN [calls |-> <<c1, c2>>, outcome |-> Raise(sent.fault)]
            ELSE [calls |-> <<c1, c2>>,
                  outcome |-> Return(Bool(SendSuccessful(sent.value, batch)))]
    ELSE [calls |-> <<>>, outcome |-> Return(Bool(TRUE))]

---------------------------------------------------------------------------
(* SqsUtils.__receive_many, receive_many, receive_one *)

Min(a, b) == IF a < b THEN a ELSE b

(* boto_client.receive_message(QueueUrl=..., MaxNumberOfMessages=..., ...): *)
(* at most MaxNumberOfMessages of the visible messages, oldest first        *)
receive_message(svc, request) ==
    IF svc.fault # NoFault THEN Faulted(svc.fault)
    ELSE LET delivered == SubSeq(svc.visible, 1,
                                 Min(request.MaxNumberOfMessages, Len(svc.visible)))
             keys == (IF delivered # <<>> \/ svc.keep THEN {"Messages"} ELSE {})
                         \cup {"ResponseMetadata"}
         IN Answer([k \in keys |->
                       IF k = "Messages" THEN delivered ELSE ResponseMetadata])

(* (a, b) *)
Pair(a, b) == [i \in {0, 1} |-> IF i = 0 THEN a ELSE b]

PairMessages(response) ==
    LET messages == DictGet(response, "Messages")
    IN IF messages # <<>> /\ Len(messages[1]) > 0
       THEN [i \in 1..Len(messages[1]) |->
                Pair(messages[1][i].Body, messages[1][i].ReceiptHandle)]
       ELSE <<>>

__receive_many(queue_name, hide_for_seconds, poll_for_seconds, max_batch_size, svc) ==
    LET url      == get_queue_url(svc, queue_name)
        c1       == Call("get_queue_url", [QueueName |-> queue_name], url)
        request  == [QueueUrl            |-> url.value["QueueUrl"],
                     MaxNumberOfMessages |-> max_batch_size,
                     VisibilityTimeout   |-> hide_for_seconds,
                     WaitTimeSeconds     |-> poll_for_seconds]
        response == receive_message(svc, request)
        c2       == Call("receive_message", request, response)
    IN IF url.fault # NoFault
       THEN [calls |-> <<c1>>, outcome |-> Raise(url.fault)]
       ELSE IF response.fault # NoFault
       THEN [calls |-> <<c1, c2>>, outcome |-> Raise(response.fault)]
       ELSE [calls |-> <<c1, c2>>, outcome |-> Return(List(PairMessages(response.value)))]

(* Variant: message[1] for message[0] *)
BodiesOf_WrongIndex(messages) == [i \in 1..Len(messages) |-> messages[i][1]]

BodiesOf(messages) == [i \in 1..Len(messages) |-> messages[i][0]]

(* Variant: a fault of the receive is answered with the empty list *)
receive_many_SwallowsFault(queue_name, hide_for_seconds, poll_for_seconds, max_batch_size, with_receipt, svc) ==
    LET r == __receive_many(queue_name, hide_for_seconds, poll_for_seconds,
                            max_batch_size, svc)
    IN IF r.outcome.kind = "raise" THEN [calls |-> r.calls, outcome |-> Return(List(<<>>))]
       ELSE IF with_receipt THEN r
       ELSE [calls |-> r.calls, outcome |-> Return(List(BodiesOf(r.outcome.value.items)))]

receive_many(queue_name, hide_for_seconds, poll_for_seconds, max_batch_size, with_receipt, svc) ==
    LET r == __receive_many(queue_name, hide_for_seconds, poll_for_seconds,
                            max_batch_size, svc)
    IN IF r.outcome.kind = "raise" THEN r
       ELSE IF with_receipt THEN r
       ELSE [calls |-> r.calls, outcome |-> Return(List(BodiesOf(r.outcome.value.items)))]

(* Variant: len(batch) > 1 for len(batch) > 0 *)
FirstOrNone_OffByOne(batch) == IF Len(batch) > 1 THEN Str(batch[1]) ELSE None

FirstOrNone(batch) == IF Len(batch) > 0 THEN Str(batch[1]) ELSE None

receive_one(queue_name, hide_for_seconds, poll_for_seconds, svc) ==
    LET r == receive_many(queue_name, hide_for_seconds, poll_for_seconds, 1, FALSE, svc)
    IN IF r.outcome.kind = "raise" THEN r
       ELSE [calls |-> r.calls, outcome |-> Return(FirstOrNone(r.outcome.value.items))]

---------------------------------------------------------------------------
(* SqsUtils.remove_batch *)

(* boto_client.delete_message_batch(QueueUrl=..., Entries=...) *)
delete_message_batch(svc, request) ==
    IF svc.fault # NoFault THEN Faulted(svc.fault)
    ELSE Answer(BatchResult(svc, request.Entries))

DeleteEntries(receipts) ==
    [i \in 1..Len(receipts) |->
        [Id |-> Sha1Hex(Utf8Encode(receipts[i])), ReceiptHandle |-> receipts[i]]]

(* len(<the answer of delete_message_batch>) == len(receipts) *)
RemoveResponse(answer, receipts) == DictLen(answer) = Len(receipts)

(* Variant: every ClientError is turned into False *)
RemoveExcept_CatchAll(fault) ==
    IF fault.cls = "ClientError" THEN Return(Bool(FALSE)) ELSE Raise(fault)

(* except ClientError as error: ... *)
RemoveExcept(fault) ==
    IF fault.cls = "ClientError"
    THEN IF fault.code = "ReceiptHandleIsInvalid" THEN Return(Bool(FALSE)) ELSE Raise(fault)
    ELSE Raise(fault)

(* Variant: no early return for the empty list *)
NoReceipts_Never(receipts) == FALSE

(* if len(receipts) == 0: return True *)
NoReceipts(receipts) == Len(receipts) = 0

remove_batch(queue_name, receipts, svc) ==
    IF NoReceipts(receipts) THEN [calls |-> <<>>, outcome |-> Return(Bool(TRUE))]
    ELSE LET url     == get_queue_url(svc, queue_name)
             c1      == Call("get_queue_url", [QueueName |-> queue_name], url)
             request == [QueueUrl |-> url.value["QueueUrl"],
                         Entries  |-> DeleteEntries(receipts)]
             deleted == delete_message_batch(svc, request)
             c2      == Call("delete_message_batch", request, deleted)
         IN IF url.fault # NoFault
            THEN [calls |-> <<c1>>, outcome |-> RemoveExcept(url.fault)]
            ELSE IF deleted.fault # NoFault
            THEN [calls |-> <<c1, c2>>, outcome |-> RemoveExcept(deleted.fault)]
            ELSE [calls |-> <<c1, c2>>,
                  outcome |-> Return(Bool(RemoveResponse(deleted.value, receipts)))]

---------------------------------------------------------------------------
(* The state machine. *)

MaybeFault == {NoFault} \cup Faults

Init ==
    /\ op = "none"
    /\ args = EmptyDict
    /\ calls = <<>>
    /\ outcome = NotInvoked

(* The caller takes the outcome; the facade keeps nothing of the invocation. *)
TakeOutcome ==
    /\ op # "none"
    /\ op' = "none"
    /\ args' = EmptyDict
    /\ calls' = <<>>
    /\ outcome' = NotInvoked

SendBatch ==
    /\ op = "none"
    /\ \E batch \in SeqsUpTo(Bodies, MaxBatch), queue_name \in QueueNames,
       group_id \in GroupIds, fun_identify \in IdFuns, fun_deduplicate \in IdFuns,
       rf \in MaybeFault, df \in MaybeFault, ok \in SUBSET (1..MaxBatch),
       keep \in BOOLEAN :
        LET svc == [resolve |-> rf, fault |-> df, ok |-> ok, keep |-> keep,
                    meta |-> TRUE, visible |-> <<>>]
            r   == send_batch(batch, queue_name, group_id,
                              fun_identify, fun_deduplicate, svc)
        IN /\ op' = "send_batch"
           /\ args' = [batch |-> batch, queue_name |-> queue_name,
                       group_id |-> group_id, fun_identify |-> fun_identify,
                       fun_deduplicate |-> fun_deduplicate]
           /\ calls' = r.calls
           /\ outcome' = r.outcome

Messages == {[Body |-> b, ReceiptHandle |-> r] : b \in Bodies, r \in Receipts}

(* <<hide_for_seconds, poll_for_seconds>>: the defaults and one override *)
Timings == {<<DefaultHide, DefaultPoll>>, <<30, 0>>}

ReceiveSvc(rf, df, visible, keep) ==
    [resolve |-> rf, fault |-> df, ok |-> {}, keep |-> keep,
     meta |-> TRUE, visible |-> visible]

ReceiveMany ==
    /\ op = "none"
    /\ \E queue_name \in QueueNames, t \in Timings, max_batch_size \in 1..MaxMsgs,
          with_receipt \in BOOLEAN, rf \in MaybeFault, df \in MaybeFault,
          visible \in SeqsUpTo(Messages, MaxMsgs), keep \in BOOLEAN :
        LET r == receive_many(queue_name, t[1], t[2], max_batch_size, with_receipt,
                              ReceiveSvc(rf, df, visible, keep))
        IN /\ op' = "receive_many"
           /\ args' = [queue_name |-> queue_name, hide_for_seconds |-> t[1],
                       poll_for_seconds |-> t[2], max_batch_size |-> max_batch_size,
                       with_receipt |-> with_receipt]
           /\ calls' = r.calls
           /\ outcome' = r.outcome

ReceiveOne ==
    /\ op = "none"
    /\ \E queue_name \in QueueNames, t \in Timings,
          rf \in MaybeFault, df \in MaybeFault,
          visible \in SeqsUpTo(Messages, MaxMsgs), keep \in BOOLEAN :
        LET r == receive_one(queue_name, t[1], t[2], ReceiveSvc(rf, df, visible, keep))
        IN /\ op' = "receive_one"
           /\ args' = [queue_name |-> queue_name, hide_for_seconds |-> t[1],
                       poll_for_seconds |-> t[2]]
           /\ calls' = r.calls
           /\ outcome' = r.outcome

RemoveBatch ==
    /\ op = "none"
    /\ \E queue_name \in QueueNames, receipts \in SeqsUpTo(Receipts, MaxReceipts),
          rf \in MaybeFault, df \in MaybeFault, ok \in SUBSET (1..MaxReceipts),
          keep \in BOOLEAN, meta \in BOOLEAN :
        LET svc == [resolve |-> rf, fault |-> df, ok |-> ok, keep |-> keep,
                    meta |-> meta, visible |-> <<>>]
            r   == remove_batch(queue_name, receipts, svc)
        IN /\ op' = "remove_batch"
           /\ args' = [queue_name |-> queue_name, receipts |-> receipts]
           /\ calls' = r.calls
           /\ outcome' = r.outcome

Next ==
    \/ SendBatch
    \/ RemoveBatch
    \/ ReceiveMany
    \/ ReceiveOne
    \/ TakeOutcome

Spec == Init /\ [][Next]_vars

---------------------------------------------------------------------------
(* What the properties read off the recorded invocation. *)

ResolveNames == {"get_queue_by_name", "get_queue_url"}

DataCallOf(o) ==
    CASE o = "send_batch"   -> "send_messages"
      [] o = "remove_batch" -> "delete_message_batch"
      [] OTHER              -> "receive_message"

(* Both calls were made and neither faulted: calls[2] holds the answer. *)
Answered == Len(calls) = 2 /\ calls[2].resp.fault = NoFault

Returned == outcome.kind = "return"

(* The list the answer carries under key k; empty when the key is absent. *)
ListUnder(d, k) == IF k \in DOMAIN d THEN d[k] ELSE <<>>

(* queue_name ends with ".fifo", letter case ignored *)
NamedFifo(q) ==
    /\ Len(q) >= 5
    /\ \A i \in 1..5 : LowerChar(q[Len(q) - 5 + i]) = FifoSuffix[i]

(* The invocation had an empty batch / receipt list as its input. *)
EmptyInput ==
    \/ op = "send_batch" /\ Len(args.batch) = 0
    \/ op = "remove_batch" /\ Len(args.receipts) = 0

---------------------------------------------------------------------------
(* C1: remove_batch with a non-empty list of receipts, when the delete     *)
(* call raises no fault, returns true if and only if the number of delete  *)
(* results the service returned equals the number of receipts.             *)
C1_RemoveTrueIffAllDeleted ==
    (op = "remove_batch" /\ Len(args.receipts) > 0 /\ Answered) =>
        /\ Returned
        /\ outcome.value.bool <=>
             (Len(ListUnder(calls[2].resp.value, "Successful")) = Len(args.receipts))

(* C2: send_batch with a non-empty batch returns true if and only if the   *)
(* number of entries the service reports as successful equals the batch    *)
(* size; on a partial failure (fewer successful entries, or no successful  *)
(* list at all) it returns false and does not raise.                       *)
C2_SendTrueIffAllSuccessful ==
    (op = "send_batch" /\ Len(args.batch) > 0 /\ Answered) =>
        /\ Returned
        /\ outcome.value.bool <=>
             /\ "Successful" \in DOMAIN calls[2].resp.value
             /\ Len(calls[2].resp.value["Successful"]) = Len(args.batch)

(* A batch of 3 of which the service reports 2 successful: false. *)
C2_Witness ==
    /\ op = "send_batch" /\ Len(args.batch) = 3 /\ Answered
    /\ Len(ListUnder(calls[2].resp.value, "Successful")) = 2
    /\ outcome = Return(Bool(FALSE))

(* C3: for every non-empty batch, the entries dispatched carry the supplied *)
(* group id and a deduplication id exactly when the queue name ends with   *)
(* ".fifo" compared case-insensitively; for any other queue name no entry  *)
(* dispatched has a group-id or deduplication-id field.                    *)
C3_FifoFieldsIffFifoName ==
    (op = "send_batch" /\ Len(args.batch) > 0 /\ Len(calls) = 2) =>
        LET entries == calls[2].req.Entries
        IN /\ Len(entries) = Len(args.batch)
           /\ \A i \in 1..Len(entries) :
                IF NamedFifo(args.queue_name)
                THEN /\ {"MessageGroupId", "MessageDeduplicationId"}
                            \subseteq DOMAIN entries[i]
                     /\ entries[i].MessageGroupId = args.group_id
                     /\ entries[i].MessageDeduplicationId =
                            ApplyFun(args.fun_deduplicate, Utf8Encode(args.batch[i]))
                ELSE DOMAIN entries[i] = {"MessageBody", "Id"}

(* Entries dispatched to "Q.FiFO" with the group id "g1". *)
C3_Witness ==
    /\ op = "send_batch" /\ Len(calls) = 2
    /\ args.queue_name = <<"Q", ".", "F", "i", "F", "O">>
    /\ Len(calls[2].req.Entries) = 2
    /\ calls[2].req.Entries[2].MessageGroupId = "g1"

(* C4: when a call of remove_batch faults with ReceiptHandleIsInvalid,     *)
(* remove_batch returns false; when it faults with anything else,          *)
(* remove_batch raises that fault and returns nothing.                     *)
C4_InvalidReceiptIsFalseOthersRaise ==
    (op = "remove_batch" /\ calls # <<>> /\ calls[Len(calls)].resp.fault # NoFault) =>
        LET fault == calls[Len(calls)].resp.fault
        IN IF fault.code = "ReceiptHandleIsInvalid"
           THEN outcome = Return(Bool(FALSE))
           ELSE outcome = Raise(fault)

(* The delete call faults with ReceiptHandleIsInvalid: false. *)
C4_Witness ==
    /\ op = "remove_batch" /\ Len(calls) = 2
    /\ calls[2].resp.fault = [cls |-> "ClientError", code |-> "ReceiptHandleIsInvalid"]
    /\ outcome = Return(Bool(FALSE))

(* C5: send_batch with an empty batch, and remove_batch with an empty list *)
(* of receipts, return true and make no call to the client at all.         *)
C5_EmptyInputTrueNoCall ==
    EmptyInput => (outcome = Return(Bool(TRUE)) /\ calls = <<>>)

C5_Witness ==
    /\ op = "send_batch" /\ args.batch = <<>>
    /\ args.queue_name = <<"q", ".", "f", "i", "f", "o">>
    /\ outcome = Return(Bool(TRUE))

(* C6: receive_many returns one element per message of the answer, in the  *)
(* order received: the body alone when with_receipt is false, the pair     *)
(* (body, receipt) when it is true; no message gives the empty sequence.   *)
C6_ReceiveManyElements ==
    (op = "receive_many" /\ Answered) =>
        LET messages == ListUnder(calls[2].resp.value, "Messages")
        IN /\ Returned
           /\ outcome.value.type = "list"
           /\ Len(outcome.value.items) = Len(messages)
           /\ \A i \in 1..Len(messages) :
                IF args.with_receipt
                THEN /\ DOMAIN outcome.value.items[i] = {0, 1}
                     /\ outcome.value.items[i][0] = messages[i].Body
                     /\ outcome.value.items[i][1] = messages[i].ReceiptHandle
                ELSE outcome.value.items[i] = messages[i].Body

(* Two messages with different bodies, returned without receipts. *)
C6_Witness ==
    /\ op = "receive_many" /\ Answered /\ ~args.with_receipt
    /\ outcome = Return(List(<<(<<233>>), (<<97>>)>>))

(* C7: receive_one returns None when the answer holds no message and the   *)
(* body, without receipt, of the first message otherwise; it asks for one  *)
(* message, and its result is what receive_many with max_batch_size = 1    *)
(* and with_receipt = False makes of the same answer: that list's only     *)
(* element, or None when the list is empty.                                *)
C7_ReceiveOneFirstBodyOrNone ==
    (op = "receive_one" /\ Answered) =>
        LET messages == ListUnder(calls[2].resp.value, "Messages")
            many     == BodiesOf(PairMessages(calls[2].resp.value))
        IN /\ calls[2].req.MaxNumberOfMessages = 1
           /\ Returned
           /\ outcome.value = IF Len(messages) = 0 THEN None
                              ELSE Str(messages[1].Body)
           /\ Len(many) <= 1
           /\ outcome.value = IF many = <<>> THEN None ELSE Str(many[1])

(* The answer holds one message; receive_one returns its body. *)
C7_Witness ==
    /\ op = "receive_one" /\ Answered
    /\ Len(ListUnder(calls[2].resp.value, "Messages")) = 1
    /\ outcome = Return(Str(<<233>>))

(* C8: in every send request dispatched by send_batch the ids of the       *)
(* entries are pairwise distinct.                                          *)
C8_EntryIdsDistinct ==
    (op = "send_batch" /\ Len(calls) = 2) =>
        LET entries == calls[2].req.Entries
        IN \A i, j \in 1..Len(entries) : i # j => entries[i].Id # entries[j].Id

(* C9: every facade operation makes exactly one call to the client per     *)
(* invocation when its input is non-empty and none when it is empty.       *)
C9_OneCallPerInvocation ==
    (op # "none") => Len(calls) = IF EmptyInput THEN 0 ELSE 1

(* C9 amended: no call when the batch / receipt list is empty; otherwise   *)
(* one queue-name resolution and, when the resolution does not fault, one  *)
(* send / receive / delete call after it: two calls, and never a third.    *)
C9_ResolveThenOneDataCall ==
    (op # "none") =>
        IF EmptyInput THEN calls = <<>>
        ELSE /\ Len(calls) \in {1, 2}
             /\ calls[1].name \in ResolveNames
             /\ Len(calls) = 2 <=> calls[1].resp.fault = NoFault
             /\ Len(calls) = 2 => calls[2].name = DataCallOf(op)

(* remove_batch of two receipts: get_queue_url, then delete_message_batch. *)
C9_Witness ==
    /\ op = "remove_batch" /\ Len(args.receipts) = 2
    /\ Len(calls) = 2
    /\ calls[1].name = "get_queue_url" /\ calls[2].name = "delete_message_batch"
    /\ Returned

(* C10: when a call made by send_batch, receive_one or receive_many        *)
(* faults, the operation raises that very fault and the faulted call is    *)
(* the last one it makes: no retry, nothing sent or received after a       *)
(* failed resolution.                                                      *)
C10_FaultPropagatesNoFurtherCall ==
    (op \in {"send_batch", "receive_one", "receive_many"}) =>
        \A i \in 1..Len(calls) :
            calls[i].resp.fault # NoFault =>
                /\ i = Len(calls)
                /\ outcome = Raise(calls[i].resp.fault)

(* The queue does not exist: receive_many raises after the resolution. *)
C10_Witness ==
    /\ op = "receive_many" /\ Len(calls) = 1
    /\ calls[1].resp.fault =
          [cls |-> "ClientError", code |-> "AWS.SimpleQueueService.NonExistentQueue"]
    /\ outcome = Raise(calls[1].resp.fault)

=============================================================================
